---- MODULE Spec2Model ----
(***************************************************************************)
(* Model of random_circuit (src/temp.py).                                  *)
(*                                                                         *)
(* Every call of random_circuit is a slot of Slots with its own locals     *)
(* (arguments, registers, rng, remaining_qubits, the circuit under         *)
(* construction).  The only state outside a call is np_random, the state   *)
(* of numpy's process-wide generator that line 59 draws the seed from.     *)
(*                                                                         *)
(* The generator returned by np.random.default_rng(seed) is a deterministic*)
(* function of the seed.  It is modelled by a small full-period linear     *)
(* congruential generator: a state in 0..RngModulus-1, one step per draw,  *)
(* the drawn value scaled from the new state.  rng.shuffle is the          *)
(* Fisher-Yates shuffle numpy implements, drawing from the same generator. *)
(***************************************************************************)
EXTENDS Integers, Sequences, FiniteSets, TLC

\* ---------------------------------------------------------------- bounds
MaxQubits == 3
MaxDepth == 2
MaxSeed == 2
MaxGlobal == 0
MaxCalls == 3

\* ------------------------------------------------------------- constants
\* width of the integer np.power(2, num_qubits) is computed in (numpy int64)
IntBits == 64
\* number of outcomes of rng.choice(range(10))
ConditionOdds == 10
\* modulus, multiplier and increment of the modelled generator
RngModulus == 256
RngMultiplier == 37
RngIncrement == 11

\* an absent seed or condition is the empty tuple, a present one <<value>>
None == <<>>
NoError == "none"
\* the exceptions a call can end with
CircuitError == "CircuitError: register size"
EmptyChoice == "ValueError: a cannot be empty"
LowNotBelowHigh == "ValueError: low >= high"
Slots == {"a", "b"}

\* the narrowest register for which np.power(2, num_qubits) leaves int64
WideQubits == IntBits - 1

NumQubitsValues == (-1 .. MaxQubits) \cup {WideQubits}
DepthValues == 0 .. MaxDepth
SeedValues == {<<s>> : s \in 0 .. MaxSeed} \cup {None}
GlobalValues == 0 .. MaxGlobal
\* the requests of the two-call specification
CallsNumQubitsValues == {0, 2}
CallsDepthValues == {1}
CallsSeedValues == {<<0>>, <<1>>, None}

VARIABLES
    np_random,          \* state of numpy's process-wide generator
    pc,                 \* position of each call
    args,               \* the arguments of each call
    rng,                \* state of the call's generator (line 60)
    layer,              \* number of iterations of the for loop begun
    remaining_qubits,   \* line 65 / 71
    qc_qubits,          \* quantum wires of qc
    qc_clbits,          \* classical wires of qc
    qc_data,            \* operations appended to qc, in order
    error,              \* exception a failed call raised
    calls_made          \* number of calls of random_circuit so far

vars == <<np_random, pc, args, rng, layer, remaining_qubits,
          qc_qubits, qc_clbits, qc_data, error, calls_made>>

\* ------------------------------------------------------------ the catalog
RXGate == "RXGate"
RYGate == "RYGate"
RZGate == "RZGate"
CXGate == "CXGate"
Reset == "Reset"
Measure == "Measure"

one_param == <<RXGate, RYGate, RZGate>>
two_param == <<>>
three_param == <<>>
two_q_ops == <<CXGate>>
three_q_ops == <<>>

\* lines 41, 55-56
one_q_ops(reset) ==
    IF reset THEN <<RXGate, RYGate, RZGate, Reset>>
    ELSE <<RXGate, RYGate, RZGate>>

Range(s) == {s[i] : i \in 1 .. Len(s)}

Min(a, b) == IF a < b THEN a ELSE b

\* ---------------------------------------------------------- the generator
\* one step of the generator
RngStep(s) == (RngMultiplier * s + RngIncrement) % RngModulus

\* the value in 0..k-1 a draw delivers from the stepped state
RngValue(s, k) == (RngStep(s) * k) \div RngModulus

\* np.random.default_rng(seed)
default_rng(seed) == seed % RngModulus


\* np.random.randint(0, np.iinfo(np.int32).max) on the process-wide generator
\* (line 59): the generator's next state, and the seed it delivers
np_random_step(g) == RngStep(g)
np_random_randint(g) == RngStep(g)

\* variant of lines 58-59: the seed argument is ignored
SeedOfMutant(seed, g) == np_random_randint(g)

\* lines 58-59: the seed the call's generator is built from
SeedOf(seed, g) == IF seed = None THEN np_random_randint(g) ELSE seed[1]

\* variant of lines 58-59: the process-wide generator is drawn from always
GlobalAfterMutant(seed, g) == np_random_step(g)

\* lines 58-59: the process-wide generator after seed resolution
GlobalAfter(seed, g) == IF seed = None THEN np_random_step(g) ELSE g

Swap(x, i, j) == [x EXCEPT ![i] = x[j], ![j] = x[i]]

\* one step of rng.shuffle: position i is swapped with a position drawn
\* from those up to and including i
ShuffleStep(st, i) ==
    [rng |-> RngStep(st.rng),
     list |-> Swap(st.list, i, RngValue(st.rng, i) + 1)]

\* the steps of rng.shuffle for positions hi down to lo, in that order (the
\* result of the upper positions is bound as a value before the lower
\* positions are computed from it)
RECURSIVE SwapsDown(_, _, _)
SwapsDown(st, hi, lo) ==
    IF hi < lo THEN st
    ELSE IF hi = lo THEN ShuffleStep(st, hi)
    ELSE LET mid == (hi + lo) \div 2
         IN  CHOOSE r \in {SwapsDown(upper, mid, lo) :
                              upper \in {SwapsDown(st, hi, mid + 1)}} : TRUE

\* rng.shuffle(x), line 69: Fisher-Yates from the last position down
Shuffle(s, x) == SwapsDown([rng |-> s, list |-> x], Len(x), 2)

\* Python's x[:k]
Take(x, k) == SubSeq(x, 1, Min(k, Len(x)))

\* list(range(num_qubits)), line 65
RangeList(n) == [i \in 1 .. (IF n > 0 THEN n ELSE 0) |-> i - 1]

\* variant of line 67: the cap does not look at what is left
max_possible_operands_mutant(remaining) == 2

\* line 67
max_possible_operands(remaining) == Min(Len(remaining), 2)

\* variant of line 71: only the first operand is removed
RemoveOperandsMutant(remaining, operands) ==
    SelectSeq(remaining, LAMBDA q : q # operands[1])

\* line 71
RemoveOperands(remaining, operands) ==
    SelectSeq(remaining, LAMBDA q : q \notin Range(operands))

\* lines 72-77: the bucket the gate kind is chosen from
Bucket(num_operands, reset) ==
    IF num_operands = 1 THEN one_q_ops(reset)
    ELSE IF num_operands = 2 THEN two_q_ops
    ELSE three_q_ops

\* lines 78-85
num_angles(operation) ==
    IF operation \in Range(one_param) THEN 1
    ELSE IF operation \in Range(two_param) THEN 2
    ELSE IF operation \in Range(three_param) THEN 3
    ELSE 0

\* line 86: num_angles draws of rng.uniform(0, 2*pi); an angle is kept as
\* the generator state it is scaled from (angle = 2*pi*state/RngModulus)
RECURSIVE DrawAngles(_, _)
DrawAngles(s, k) ==
    IF k = 0 THEN [rng |-> s, angles |-> <<>>]
    ELSE LET rest == DrawAngles(RngStep(s), k - 1)
         IN [rng |-> rest.rng, angles |-> <<RngStep(s)>> \o rest.angles]

\* variant of line 91: the flag is not consulted
ConditionedMutant(conditional, draw) == draw = 0

\* line 91; the draw is made only when conditional is set
Conditioned(conditional, draw) == conditional /\ draw = 0

\* line 92: np.power(2, num_qubits) is an int64; from IntBits-1 qubits on
\* it wraps (to -2^63, then to 0) and rng.integers(0, high) raises
\* ValueError because low >= high
PowerWraps(n) == n >= IntBits - 1

\* variant of line 51: the classical register is added for measure only
HasClassicalMutant(measure, conditional) == measure

\* line 51
HasClassical(measure, conditional) == measure \/ conditional

\* variant of line 98: every qubit is measured into classical bit 0
MeasurementsMutant(n) ==
    [i \in 1 .. (IF n > 0 THEN n ELSE 0) |->
        [name |-> Measure, params |-> <<>>, qargs |-> <<i - 1>>,
         cargs |-> <<0>>, condition |-> None, layer |-> 0]]

\* qc.measure(qr, cr), line 98: one measurement per qubit, qr[i] into cr[i]
Measurements(n) ==
    [i \in 1 .. (IF n > 0 THEN n ELSE 0) |->
        [name |-> Measure, params |-> <<>>, qargs |-> <<i - 1>>,
         cargs |-> <<i - 1>>, condition |-> None, layer |-> 0]]

\* variant of line 63: one layer too many
LoopDoneMutant(l, depth) == l >= depth + 1

\* range(depth), line 63, is exhausted
LoopDone(l, depth) == l >= depth

\* one iteration of the while loop, lines 67-95, from generator state s
Iteration(s, remaining, a, l) ==
    LET max_ops == max_possible_operands(remaining)
        num_operands == RngValue(s, max_ops) + 1
        sh == Shuffle(RngStep(s), remaining)
        operands == Take(sh.list, num_operands)
        left == RemoveOperands(sh.list, operands)
        bucket == Bucket(num_operands, a.reset)
        s2 == sh.rng
    IN  IF Len(bucket) = 0
        THEN [raised |-> EmptyChoice, rng |-> s2, remaining |-> left, op |-> None]
        ELSE
        LET operation == bucket[RngValue(s2, Len(bucket)) + 1]
            an == DrawAngles(RngStep(s2), num_angles(operation))
            s4 == an.rng
            hit == Conditioned(a.conditional, RngValue(s4, ConditionOdds))
            s5 == IF a.conditional THEN RngStep(s4) ELSE s4
            base == [name |-> operation, params |-> an.angles, qargs |-> operands,
                     cargs |-> <<>>, condition |-> None, layer |-> l]
        IN  IF ~hit
            THEN [raised |-> NoError, rng |-> s5, remaining |-> left, op |-> base]
            ELSE IF PowerWraps(a.num_qubits)
            THEN [raised |-> LowNotBelowHigh, rng |-> s5, remaining |-> left, op |-> None]
            ELSE [raised |-> NoError, rng |-> RngStep(s5), remaining |-> left,
                  op |-> [base EXCEPT !.condition = <<RngValue(s5, 2 ^ a.num_qubits)>>]]

NoArgs == [num_qubits |-> 0, depth |-> 0, measure |-> FALSE,
           conditional |-> FALSE, reset |-> FALSE, seed |-> None]

Init ==
    /\ np_random \in GlobalValues
    /\ pc = [c \in Slots |-> "idle"]
    /\ args = [c \in Slots |-> NoArgs]
    /\ rng = [c \in Slots |-> 0]
    /\ layer = [c \in Slots |-> 0]
    /\ remaining_qubits = [c \in Slots |-> <<>>]
    /\ qc_qubits = [c \in Slots |-> 0]
    /\ qc_clbits = [c \in Slots |-> 0]
    /\ qc_data = [c \in Slots |-> <<>>]
    /\ error = [c \in Slots |-> NoError]
    /\ calls_made = 0

\* QuantumRegister(num_qubits, 'q'), line 48, raises CircuitError for a
\* negative size.  Whether it also raises for size 0 depends on the Qiskit
\* release (some require a positive size, some a non-negative one); the
\* source does not check num_qubits itself, so both outcomes are possible.
RegisterMayRaise(n) == n <= 0
RegisterMayAccept(n) == n >= 0

\* lines 11-60 when the registers are accepted
Call(c, a) ==
    /\ pc[c] = "idle"
    /\ calls_made < MaxCalls
    /\ calls_made' = calls_made + 1
    /\ RegisterMayAccept(a.num_qubits)
    /\ pc' = [pc EXCEPT ![c] = "layers"]
    /\ args' = [args EXCEPT ![c] = a]
    /\ qc_qubits' = [qc_qubits EXCEPT ![c] = a.num_qubits]
    /\ qc_clbits' = [qc_clbits EXCEPT ![c] =
            IF HasClassical(a.measure, a.conditional) THEN a.num_qubits ELSE 0]
    /\ rng' = [rng EXCEPT ![c] = default_rng(SeedOf(a.seed, np_random))]
    /\ np_random' = GlobalAfter(a.seed, np_random)
    /\ UNCHANGED <<layer, remaining_qubits, qc_data, error>>

\* lines 11-48 when QuantumRegister raises
Reject(c, a) ==
    /\ pc[c] = "idle"
    /\ calls_made < MaxCalls
    /\ calls_made' = calls_made + 1
    /\ RegisterMayRaise(a.num_qubits)
    /\ pc' = [pc EXCEPT ![c] = "failed"]
    /\ args' = [args EXCEPT ![c] = a]
    /\ error' = [error EXCEPT ![c] = CircuitError]
    /\ UNCHANGED <<np_random, rng, layer, remaining_qubits,
                   qc_qubits, qc_clbits, qc_data>>

\* lines 63-66: the for loop starts its next iteration
BeginLayer(c) ==
    /\ pc[c] = "layers"
    /\ ~LoopDone(layer[c], args[c].depth)
    /\ layer' = [layer EXCEPT ![c] = @ + 1]
    /\ remaining_qubits' = [remaining_qubits EXCEPT ![c] = RangeList(args[c].num_qubits)]
    /\ pc' = [pc EXCEPT ![c] =
            IF RangeList(args[c].num_qubits) = <<>> THEN "layers" ELSE "ops"]
    /\ UNCHANGED <<np_random, args, rng, qc_qubits, qc_clbits, qc_data, error, calls_made>>

\* lines 66-95: one iteration of the while loop
Operation(c) ==
    /\ pc[c] = "ops"
    /\ LET it == Iteration(rng[c], remaining_qubits[c], args[c], layer[c])
       IN  /\ rng' = [rng EXCEPT ![c] = it.rng]
           /\ remaining_qubits' = [remaining_qubits EXCEPT ![c] = it.remaining]
           /\ IF it.raised # NoError
              THEN /\ pc' = [pc EXCEPT ![c] = "failed"]
                   /\ error' = [error EXCEPT ![c] = it.raised]
                   /\ UNCHANGED qc_data
              ELSE /\ qc_data' = [qc_data EXCEPT ![c] = Append(@, it.op)]
                   /\ pc' = [pc EXCEPT ![c] =
                          IF it.remaining = <<>> THEN "layers" ELSE "ops"]
                   /\ UNCHANGED error
    /\ UNCHANGED <<np_random, args, layer, qc_qubits, qc_clbits, calls_made>>

\* lines 97-100
Finalize(c) ==
    /\ pc[c] = "layers"
    /\ LoopDone(layer[c], args[c].depth)
    /\ qc_data' = [qc_data EXCEPT ![c] =
            IF args[c].measure THEN @ \o Measurements(args[c].num_qubits) ELSE @]
    /\ pc' = [pc EXCEPT ![c] = "done"]
    /\ UNCHANGED <<np_random, args, rng, layer, remaining_qubits,
                   qc_qubits, qc_clbits, error, calls_made>>

\* a finished call's locals and result are dropped; the slot is free for
\* the next call, whose locals are fresh (lines 11-12, 41-49)
Discard(c) ==
    /\ pc[c] \in {"done", "failed"}
    /\ pc' = [pc EXCEPT ![c] = "idle"]
    /\ args' = [args EXCEPT ![c] = NoArgs]
    /\ rng' = [rng EXCEPT ![c] = 0]
    /\ layer' = [layer EXCEPT ![c] = 0]
    /\ remaining_qubits' = [remaining_qubits EXCEPT ![c] = <<>>]
    /\ qc_qubits' = [qc_qubits EXCEPT ![c] = 0]
    /\ qc_clbits' = [qc_clbits EXCEPT ![c] = 0]
    /\ qc_data' = [qc_data EXCEPT ![c] = <<>>]
    /\ error' = [error EXCEPT ![c] = NoError]
    /\ UNCHANGED <<np_random, calls_made>>

Requests ==
    [num_qubits : NumQubitsValues, depth : DepthValues, measure : BOOLEAN,
     conditional : BOOLEAN, reset : BOOLEAN, seed : SeedValues]

CallsRequests ==
    [num_qubits : CallsNumQubitsValues, depth : CallsDepthValues, measure : {TRUE},
     conditional : BOOLEAN, reset : BOOLEAN, seed : CallsSeedValues]

\* one call
Next ==
    \/ \E a \in Requests : Call("a", a)
    \/ \E a \in Requests : Reject("a", a)
    \/ BeginLayer("a")
    \/ Operation("a")
    \/ Finalize("a")

Spec == Init /\ [][Next]_vars

\* the calls of Slots, interleaved
NextCalls ==
    \/ \E c \in Slots, a \in CallsRequests : Call(c, a)
    \/ \E c \in Slots, a \in CallsRequests : Reject(c, a)
    \/ \E c \in Slots : BeginLayer(c)
    \/ \E c \in Slots : Operation(c)
    \/ \E c \in Slots : Finalize(c)
    \/ \E c \in Slots : Discard(c)

SpecCalls == Init /\ [][NextCalls]_vars

\* ------------------------------------------------------------------ claims

Gates(c) == {i \in DOMAIN qc_data[c] : qc_data[c][i].name # Measure}
LayerGroups(c, l) == {i \in Gates(c) : qc_data[c][i].layer = l}
Qargs(c, i) == Range(qc_data[c][i].qargs)
LayerComplete(c, l) ==
    l < layer[c] \/ (l = layer[c] /\ pc[c] \in {"layers", "done"})

\* C1: in every layer of a call with num_qubits >= 1 the operand groups are
\* groups of distinct qubits of the register, no qubit is in two groups, and
\* once the layer is complete every qubit is in exactly one group.
C1_LayerPartition ==
    \A c \in Slots : args[c].num_qubits >= 1 =>
        \A l \in 1 .. layer[c] :
            LET groups == LayerGroups(c, l) IN
            /\ \A i \in groups :
                  /\ Qargs(c, i) \subseteq 0 .. (args[c].num_qubits - 1)
                  /\ Cardinality(Qargs(c, i)) = Len(qc_data[c][i].qargs)
            /\ \A q \in 0 .. (args[c].num_qubits - 1) :
                  LET holders == {i \in groups : q \in Qargs(c, i)}
                  IN  /\ Cardinality(holders) <= 1
                      /\ LayerComplete(c, l) => Cardinality(holders) = 1

C1_Witness ==
    \E c \in Slots :
        /\ pc[c] = "done" /\ args[c].num_qubits = 3 /\ args[c].depth = 2
        /\ \E i, j \in LayerGroups(c, 2) :
              Len(qc_data[c][i].qargs) = 2 /\ Len(qc_data[c][j].qargs) = 1

\* C2: two finished calls with the same explicit seed and the same
\* num_qubits, depth, measure, conditional and reset hold the same sequence
\* of operations (kind, operands, parameters, condition), whatever calls
\* were made before or between them.
C2_SameSeedSameCircuit ==
    \A c1, c2 \in Slots :
        (/\ pc[c1] = "done" /\ pc[c2] = "done"
         /\ args[c1] = args[c2] /\ args[c1].seed # None)
        => qc_data[c1] = qc_data[c2]

C2_Witness ==
    \E c1, c2 \in Slots :
        /\ c1 # c2 /\ pc[c1] = "done" /\ pc[c2] = "done"
        /\ args[c1] = args[c2] /\ args[c1].seed # None
        /\ args[c1].conditional /\ qc_data[c1] # <<>>
        /\ calls_made >= 3 /\ np_random \notin GlobalValues

\* C3: a call with num_qubits < 1 fails with the register's CircuitError
\* and builds nothing.
C3_NoQubitsRejected ==
    \A c \in Slots :
        (pc[c] # "idle" /\ args[c].num_qubits < 1)
        => (pc[c] = "failed" /\ error[c] = CircuitError /\ qc_data[c] = <<>>)

Locals(c) ==
    <<pc[c], args[c], rng[c], layer[c], remaining_qubits[c],
      qc_qubits[c], qc_clbits[c], qc_data[c], error[c]>>

SizeCount(c, k) ==
    Cardinality({i \in Gates(c) : Len(qc_data[c][i].qargs) = k})

\* C6: a returned circuit of a call with num_qubits >= 1 holds exactly the
\* layers 1..depth, each a consecutive block before any measurement, the
\* group sizes sum to depth * num_qubits, and with measure there are
\* num_qubits measurements even when depth is 0.
C6_ExactlyDepthLayers ==
    \A c \in Slots :
        (pc[c] = "done" /\ args[c].num_qubits >= 1) =>
            LET d == qc_data[c] IN
            /\ {d[i].layer : i \in Gates(c)} = 1 .. args[c].depth
            /\ \A i \in 1 .. (Len(d) - 1) :
                  \/ d[i + 1].name = Measure
                  \/ d[i].name # Measure /\ d[i].layer <= d[i + 1].layer
            /\ \A i \in Gates(c) : Len(d[i].qargs) \in 1 .. 3
            /\ SizeCount(c, 1) + 2 * SizeCount(c, 2) + 3 * SizeCount(c, 3)
                  = args[c].depth * args[c].num_qubits
            /\ Len(d) - Cardinality(Gates(c))
                  = (IF args[c].measure THEN args[c].num_qubits ELSE 0)

C6_Witness ==
    \E c \in Slots :
        /\ pc[c] = "done" /\ args[c].num_qubits = 3 /\ args[c].depth = 2
        /\ SizeCount(c, 2) >= 1 /\ SizeCount(c, 1) >= 2

\* C7: no operation of a call made with conditional false carries a
\* condition.
C7_NoConditionUnlessConditional ==
    \A c \in Slots :
        ~args[c].conditional =>
            \A i \in DOMAIN qc_data[c] : qc_data[c][i].condition = None

C7_Witness ==
    \E c \in Slots :
        /\ pc[c] = "done" /\ ~args[c].conditional /\ args[c].measure
        /\ args[c].depth = 2 /\ Len(qc_data[c]) >= 5

\* C8: the circuit of a call with num_qubits >= 1 has num_qubits quantum
\* wires, and num_qubits classical wires if measure or conditional is set
\* and none otherwise.
C8_WireCounts ==
    \A c \in Slots :
        (pc[c] \in {"layers", "ops", "done"} /\ args[c].num_qubits >= 1) =>
            /\ qc_qubits[c] = args[c].num_qubits
            /\ qc_clbits[c] =
                  (IF args[c].measure \/ args[c].conditional
                   THEN args[c].num_qubits ELSE 0)

C8_Witness ==
    \E c \in Slots :
        /\ pc[c] = "done" /\ args[c].conditional /\ ~args[c].measure
        /\ args[c].reset /\ args[c].depth = 2
        /\ args[c].num_qubits = 2 /\ qc_clbits[c] = 2

\* the operands the groups of layer l take together
LayerOperands(c, l) ==
    LET groups == LayerGroups(c, l)
    IN  Cardinality({i \in groups : Len(qc_data[c][i].qargs) = 1})
        + 2 * Cardinality({i \in groups : Len(qc_data[c][i].qargs) = 2})

C10_AlwaysCompletes ==
    \A c \in Slots :
        args[c].num_qubits >= 1 =>
            /\ pc[c] # "failed"
            /\ \A l \in 1 .. layer[c] :
                  LayerComplete(c, l) =>
                      /\ 2 * Cardinality(LayerGroups(c, l)) >= args[c].num_qubits
                      /\ Cardinality(LayerGroups(c, l)) <= args[c].num_qubits

====
